---- MODULE Spec2Model ----
(***************************************************************************)
(* Model of the Arke reprocessor API: the HTTP handler of POST             *)
(* /api/reprocess (src/src/index.ts), the permission check                 *)
(* (src/unnamed/part_001), chain resolution (src/src/resolver.ts) and the  *)
(* orchestration, materialization, manifest building and publishing of     *)
(* src/src/reprocessor.ts.                                                 *)
(*                                                                         *)
(* One request is followed from its arrival to its response and beyond     *)
(* (work started by Promise.all keeps running after a rejection).  Every   *)
(* action is the code between two awaits; the external services (entity    *)
(* store, permission service, staging bucket, queue) answer                *)
(* nondeterministically.                                                   *)
(*                                                                         *)
(* Identifiers (PIs) are modelled as naturals: 1, 2, ... are well-formed   *)
(* 26-character ULIDs, 0 is the all-zero ULID.  Negative numbers encode    *)
(* the JavaScript values that are not identifiers.                         *)
(***************************************************************************)
EXTENDS Integers, Sequences, FiniteSets, Bags, TLC

----------------------------------------------------------------------------
(* Bounds of the model *)

\* entities 1..NumIds exist in the store of the request specification
NumIds == 2
\* an entity of the request specification has at most MaxComps components
MaxComps == 1
\* entities 1..SmallN carry arbitrary parents in the resolver specification
SmallN == 2
\* the resolver specification walks chains of up to maxDepth + ChainExtra entities
ChainExtra == 2

----------------------------------------------------------------------------
(* Values *)

\* JavaScript undefined (an absent optional field)
Undefined == -1
\* the empty string (falsy, like undefined)
EmptyStr == -2
\* a non-empty string that does not match piRegex
Malformed == -3

\* resolver.ts:38, index.ts:137: the all-zero ULID
NO_PARENT_SENTINEL == 0
\* resolver.ts:33
maxDepth == 100

\* JavaScript truthiness of a string-or-undefined value (!v is ~Truthy(v))
Truthy(v) == v \notin {Undefined, EmptyStr}

\* index.ts:91  /^[0-9A-HJKMNP-TV-Z]{26}$/ ; the all-zero ULID matches
piRegexTest(v) == v >= 0

\* index.ts:100
validPhases == {"pinax", "cheimarros", "description"}

\* component names an entity may carry, in the order of its components
\* object; a name is the sequence of its dot-separated segments
\* ("a.md", "b.PNG", "md")
CompNameSeq == << <<"a", "md">>, <<"b", "PNG">>, <<"md">> >>

\* reprocessor.ts:34 generateULID(): the one batch of the one request
BatchId == "reprocess_1"

----------------------------------------------------------------------------
(* State *)

VARIABLES
  body,        \* the parsed JSON body of the request (index.ts:67)
  store,       \* the entity store behind IPFS_WRAPPER: id -> entity
  pc,          \* where the handler / orchestrator is waiting
  permCalls,   \* identifiers the permission service was asked about, in order
  permCheck,   \* result of checkReprocessPermission (index.ts:110)
  request,     \* the ReprocessRequest handed to processReprocessingRequest
  response,    \* the HTTP response (status 0: none yet)
  r_pc,        \* resolver: "idle", "fetching", "returned", "thrown"
  entities,    \* resolver.ts:23
  currentPI,   \* resolver.ts:31
  depth,       \* resolver.ts:32
  r_fetches,   \* identifiers fetched by the resolver, in order
  r_err,       \* message of the error the resolver threw
  tasks,       \* materializeEntityToStaging promises, one per entityPIs index
  m_fetches,   \* identifiers whose fetch the materializer has issued, in order
  m_calls,     \* bag of the external calls the materializer has issued
  m_errs,      \* messages of the errors those calls have thrown, in order
  staging,     \* keys written to STAGING_BUCKET
  manifest,    \* the manifest built by buildReprocessingManifest
  p_st,        \* publishReprocessingBatch: "idle", "putting", "putFailed",
               \* "sending", "sendFailed", "sent"
  queue        \* messages accepted by BATCH_QUEUE

vars == <<body, store, pc, permCalls, permCheck, request, response,
          r_pc, entities, currentPI, depth, r_fetches, r_err,
          tasks, m_fetches, m_calls, m_errs, staging, manifest, p_st, queue>>

handlerVars == <<body, store, permCalls, permCheck>>
resolverVars == <<r_pc, entities, currentPI, depth, r_fetches, r_err>>
materializeVars == <<tasks, m_fetches, m_calls, m_errs, staging>>
publishVars == <<manifest, p_st, queue>>

----------------------------------------------------------------------------
(* Responses of the handler *)

NoResponse == [status |-> 0, error |-> "", batch_id |-> "",
               entities_queued |-> 0, entity_pis |-> <<>>, status_url |-> <<>>]

\* index.ts:229 jsonResponse({error, message}, status)
ErrorResponse(status, error) ==
  [status |-> status, error |-> error, batch_id |-> "",
   entities_queued |-> 0, entity_pis |-> <<>>, status_url |-> <<>>]

\* mutant: only a missing entity is answered 404
CatchResponseEntityOnly(message) ==
  IF message = "Entity not found" THEN ErrorResponse(404, "NOT_FOUND")
  ELSE ErrorResponse(500, "INTERNAL_ERROR")

\* mutant: every caught error is answered 404
CatchResponseAlwaysNotFound(message) == ErrorResponse(404, "NOT_FOUND")

\* index.ts:200-223: the catch block maps an error message to a response
CatchResponse(message) ==
  IF message = "Entity not found" THEN ErrorResponse(404, "NOT_FOUND")
  ELSE IF message = "Content not found" THEN ErrorResponse(404, "NOT_FOUND")
  ELSE ErrorResponse(500, "INTERNAL_ERROR")

\* mutant: entities_queued counts the ancestors only
SuccessResponseCountsAncestors(batchId, entityPIs) ==
  [status |-> 200, error |-> "", batch_id |-> batchId,
   entities_queued |-> Len(entityPIs) - 1, entity_pis |-> entityPIs,
   status_url |-> <<"https://orchestrator.arke.institute/status/", batchId>>]

\* reprocessor.ts:100-105 and index.ts:198
SuccessResponse(batchId, entityPIs) ==
  [status |-> 200, error |-> "", batch_id |-> batchId,
   entities_queued |-> Len(entityPIs), entity_pis |-> entityPIs,
   status_url |-> <<"https://orchestrator.arke.institute/status/", batchId>>]

----------------------------------------------------------------------------
(* Permission check: src/unnamed/part_001 *)

\* what COLLECTIONS_WORKER may answer: the call throws, the status is not OK,
\* or a PiPermissions body {canEdit, collection?: {rootPi}} (rootPi Undefined:
\* the entity is in no collection)
PermResponses(ids) ==
  {[kind |-> "throws", canEdit |-> FALSE, rootPi |-> Undefined],
   [kind |-> "notOk", canEdit |-> FALSE, rootPi |-> Undefined]}
  \cup [kind : {"ok"}, canEdit : BOOLEAN, rootPi : {Undefined} \cup ids]

\* the `permissions` field of a result that carries none
NoPermissions == [kind |-> "none", canEdit |-> FALSE, rootPi |-> Undefined]

\* mutant: a failed call to the permission service lets the request through
checkReprocessPermissionFailsOpen(resp) ==
  IF resp.kind = "throws"
    THEN [allowed |-> TRUE, reason |-> "Permission check error",
          permissions |-> NoPermissions, cascadeStopPi |-> Undefined]
  ELSE IF resp.kind = "notOk"
    THEN [allowed |-> TRUE, reason |-> "Permission check failed",
          permissions |-> NoPermissions, cascadeStopPi |-> Undefined]
  ELSE IF ~resp.canEdit
    THEN [allowed |-> FALSE, reason |-> "Not authorized",
          permissions |-> resp, cascadeStopPi |-> Undefined]
  ELSE [allowed |-> TRUE, reason |-> "",
        permissions |-> resp, cascadeStopPi |-> resp.rootPi]

\* mutant: canEdit is not looked at
checkReprocessPermissionIgnoresCanEdit(resp) ==
  IF resp.kind = "throws"
    THEN [allowed |-> FALSE, reason |-> "Permission check error",
          permissions |-> NoPermissions, cascadeStopPi |-> Undefined]
  ELSE IF resp.kind = "notOk"
    THEN [allowed |-> FALSE, reason |-> "Permission check failed",
          permissions |-> NoPermissions, cascadeStopPi |-> Undefined]
  ELSE [allowed |-> TRUE, reason |-> "",
        permissions |-> resp, cascadeStopPi |-> resp.rootPi]

\* part_001:26-75
checkReprocessPermission(resp) ==
  IF resp.kind = "throws"
    THEN [allowed |-> FALSE, reason |-> "Permission check error",
          permissions |-> NoPermissions, cascadeStopPi |-> Undefined]
  ELSE IF resp.kind = "notOk"
    THEN [allowed |-> FALSE, reason |-> "Permission check failed",
          permissions |-> NoPermissions, cascadeStopPi |-> Undefined]
  ELSE IF ~resp.canEdit
    THEN [allowed |-> FALSE, reason |-> "Not authorized",
          permissions |-> resp, cascadeStopPi |-> Undefined]
  ELSE [allowed |-> TRUE, reason |-> "",
        permissions |-> resp, cascadeStopPi |-> resp.rootPi]

\* no permission check has returned yet
NoPermCheck == [allowed |-> FALSE, reason |-> "",
                permissions |-> NoPermissions, cascadeStopPi |-> Undefined]

----------------------------------------------------------------------------
(* The handler: src/src/index.ts handleReprocessRequest *)

\* index.ts:83  !body.phases || !Array.isArray(body.phases) || length === 0
PhasesMissingOrInvalid(phases) ==
  phases.kind # "array" \/ Len(phases.items) = 0

\* index.ts:101
invalidPhases(phases) ==
  SelectSeq(phases.items, LAMBDA p : p \notin validPhases)

\* index.ts:64-107: the response of a failed validation, NoResponse when valid;
\* a body that is not JSON is refused (index.ts:66-73);
\* reading `body.pi` of a body that parsed to null throws a TypeError, which
\* the catch block (index.ts:200-223) answers
ValidateBody(b) ==
  IF b.json = "invalid" THEN ErrorResponse(400, "VALIDATION_ERROR")
  ELSE IF b.json = "null"
    THEN CatchResponse("Cannot read properties of null")
  ELSE IF ~Truthy(b.pi) THEN ErrorResponse(400, "VALIDATION_ERROR")
  ELSE IF PhasesMissingOrInvalid(b.phases)
    THEN ErrorResponse(400, "VALIDATION_ERROR")
  ELSE IF ~piRegexTest(b.pi) THEN ErrorResponse(400, "VALIDATION_ERROR")
  ELSE IF Len(invalidPhases(b.phases)) > 0
    THEN ErrorResponse(400, "VALIDATION_ERROR")
  ELSE NoResponse

\* index.ts:60-110: parse, validate, then call the permission service with
\* the target identifier
HandleReprocessRequest ==
  /\ pc = "received"
  /\ IF ValidateBody(body) # NoResponse
       THEN /\ response' = ValidateBody(body)
            /\ pc' = "responded"
            /\ UNCHANGED permCalls
       ELSE /\ permCalls' = Append(permCalls, body.pi)
            /\ pc' = "permission"
            /\ UNCHANGED response
  /\ UNCHANGED <<body, store, permCheck, request>>
  /\ UNCHANGED <<resolverVars, materializeVars, publishVars>>

\* index.ts:120  body.cascade ?? false
Cascade(b) == b.cascade = "true"

\* mutant: the collection root takes precedence over the explicit boundary
EffectiveStopAtPICollectionFirst(explicitStopAtPI, pcheck) ==
  IF Truthy(pcheck.cascadeStopPi) THEN pcheck.cascadeStopPi
  ELSE IF Truthy(explicitStopAtPI) THEN explicitStopAtPI
  ELSE NO_PARENT_SENTINEL

\* index.ts:129-139
EffectiveStopAtPI(explicitStopAtPI, pcheck) ==
  IF Truthy(explicitStopAtPI) THEN explicitStopAtPI
  ELSE IF Truthy(pcheck.cascadeStopPi) THEN pcheck.cascadeStopPi
  ELSE NO_PARENT_SENTINEL

\* index.ts:142
StopAtPIInvalid(explicitStopAtPI) ==
  /\ Truthy(explicitStopAtPI)
  /\ explicitStopAtPI # NO_PARENT_SENTINEL
  /\ ~piRegexTest(explicitStopAtPI)

\* index.ts:150-178
CustomPromptsInvalid(customPrompts) == customPrompts = "invalid"

NoRequest == [pi |-> Undefined, phases |-> <<>>, cascade |-> FALSE,
              stopAtPI |-> Undefined, customPrompts |-> "absent",
              customNote |-> "absent"]

\* index.ts:189-196
BuildRequest(b, pcheck) ==
  [pi |-> b.pi, phases |-> b.phases.items, cascade |-> Cascade(b),
   stopAtPI |-> EffectiveStopAtPI(b.stop_at_pi, pcheck),
   customPrompts |-> b.custom_prompts, customNote |-> b.custom_note]

\* mutant: the handler does not look at the result of the check
RefusedNever(pcheck) == FALSE

\* index.ts:112  if (!permCheck.allowed)
Refused(pcheck) == ~pcheck.allowed

\* part_001:37-74 and index.ts:110-196: the permission service answers; the
\* handler refuses (403), rejects the options (400) or calls
\* processReprocessingRequest
PermissionReturns ==
  /\ pc = "permission"
  /\ \E resp \in PermResponses(DOMAIN store) :
       LET pcheck == checkReprocessPermission(resp) IN
       /\ permCheck' = pcheck
       /\ IF Refused(pcheck)
            THEN /\ response' = ErrorResponse(403, "FORBIDDEN")
                 /\ pc' = "responded"
                 /\ UNCHANGED request
          ELSE IF StopAtPIInvalid(body.stop_at_pi)
                    \/ CustomPromptsInvalid(body.custom_prompts)
            THEN /\ response' = ErrorResponse(400, "VALIDATION_ERROR")
                 /\ pc' = "responded"
                 /\ UNCHANGED request
          ELSE /\ request' = BuildRequest(body, pcheck)
               /\ pc' = "process"
               /\ UNCHANGED response
  /\ UNCHANGED <<body, store, permCalls>>
  /\ UNCHANGED <<resolverVars, materializeVars, publishVars>>

----------------------------------------------------------------------------
(* Entity store client: src/src/reprocessor.ts IPFSWrapperClient *)

\* reprocessor.ts:262-274 getEntity: the entity, a 404 ("Entity not found")
\* for an identifier the store does not hold, or any other failure
GetEntityOutcomes(pi) ==
  IF pi \in DOMAIN store THEN {"ok", "Failed to fetch entity"}
  ELSE {"Entity not found", "Failed to fetch entity"}

\* reprocessor.ts:279-291 downloadContent
DownloadContentOutcomes ==
  {"ok", "Content not found", "Failed to download content"}

----------------------------------------------------------------------------
(* Chain resolution: src/src/resolver.ts resolveEntitiesForReprocessing *)

\* resolver.ts:44
StopCondition(entity, stopAtPI) ==
  \/ ~Truthy(entity.parent_pi)
  \/ entity.parent_pi = NO_PARENT_SENTINEL
  \/ entity.parent_pi = stopAtPI

\* mutant: the loop gives up one hop early
LoopContinuesOffByOne(d) == d + 1 < maxDepth

\* mutant: the loop allows one hop more
LoopContinuesInclusive(d) == d <= maxDepth

\* resolver.ts:40  while (depth < maxDepth)
LoopContinues(d) == d < maxDepth

\* mutant: the early return is missing
SingleEntityModeNever(cascade) == FALSE

\* resolver.ts:25  if (!cascade)
SingleEntityMode(cascade) == ~cascade

\* resolver.ts:23  const entities = [pi]
InitialEntities(pi) == <<pi>>

\* mutant: the current identifier is pushed instead of the parent
PushCurrent(list, current, entity) == Append(list, current)

\* resolver.ts:50  entities.push(entity.parent_pi)
PushParent(list, current, entity) == Append(list, entity.parent_pi)

\* mutant: the depth check after the loop is missing
DepthExceededNever(d) == FALSE

\* resolver.ts:55  if (depth >= maxDepth)
DepthExceeded(d) == d >= maxDepth

\* resolver.ts:55-60: after the loop the resolver throws or returns
AfterLoop(d) == IF DepthExceeded(d) THEN "thrown" ELSE "returned"

\* reprocessor.ts:33-54 and resolver.ts:22-41: the orchestrator calls the
\* resolver, which returns [pi] at once without cascade and otherwise
\* fetches the target
ProcessReprocessingRequest ==
  /\ pc = "process"
  /\ pc' = "resolving"
  /\ entities' = InitialEntities(request.pi)
  /\ IF SingleEntityMode(request.cascade)
       THEN /\ r_pc' = "returned"
            /\ UNCHANGED <<currentPI, depth, r_fetches, r_err>>
       ELSE /\ currentPI' = request.pi
            /\ depth' = 0
            /\ IF LoopContinues(0)
                 THEN /\ r_pc' = "fetching"
                      /\ r_fetches' = Append(r_fetches, request.pi)
                      /\ UNCHANGED r_err
                 ELSE /\ r_pc' = AfterLoop(0)
                      /\ r_err' = IF DepthExceeded(0) THEN "Max depth" ELSE r_err
                      /\ UNCHANGED r_fetches
  /\ UNCHANGED <<handlerVars, request, response>>
  /\ UNCHANGED <<materializeVars, publishVars>>

\* resolver.ts:41-60: one iteration of the walk, from the return of getEntity
\* to the next getEntity, the return or the throw
ResolverGetEntityReturns ==
  /\ r_pc = "fetching"
  /\ \E outcome \in GetEntityOutcomes(currentPI) :
       IF outcome # "ok"
         THEN /\ r_pc' = "thrown"
              /\ r_err' = outcome
              /\ UNCHANGED <<entities, currentPI, depth, r_fetches>>
       ELSE LET entity == store[currentPI] IN
         IF StopCondition(entity, request.stopAtPI)
           THEN /\ r_pc' = AfterLoop(depth)
                /\ r_err' = IF DepthExceeded(depth) THEN "Max depth" ELSE r_err
                /\ UNCHANGED <<entities, currentPI, depth, r_fetches>>
         ELSE /\ entities' = PushParent(entities, currentPI, entity)
              /\ currentPI' = entity.parent_pi
              /\ depth' = depth + 1
              /\ IF LoopContinues(depth + 1)
                   THEN /\ r_pc' = "fetching"
                        /\ r_fetches' = Append(r_fetches, entity.parent_pi)
                        /\ UNCHANGED r_err
                   ELSE /\ r_pc' = AfterLoop(depth + 1)
                        /\ r_err' = IF DepthExceeded(depth + 1)
                                      THEN "Max depth" ELSE r_err
                        /\ UNCHANGED r_fetches
  /\ UNCHANGED <<handlerVars, pc, request, response>>
  /\ UNCHANGED <<materializeVars, publishVars>>

\* index.ts:200-223: the resolver's error reaches the handler's catch block
ResolverThrew ==
  /\ pc = "resolving"
  /\ r_pc = "thrown"
  /\ response' = CatchResponse(r_err)
  /\ pc' = "responded"
  /\ UNCHANGED <<handlerVars, request>>
  /\ UNCHANGED <<resolverVars, materializeVars, publishVars>>

----------------------------------------------------------------------------
(* Materialization: src/src/reprocessor.ts materializeEntityToStaging *)

RECURSIVE SumSeq(_)
SumSeq(s) == IF s = <<>> THEN 0 ELSE Head(s) + SumSeq(Tail(s))

\* reprocessor.ts:35
StagingPrefix(batchId) == <<"reprocessing/", batchId, "/">>

\* mutant: the key leaves out the entity
R2KeyWithoutPi(stagingPrefix, pi, componentKey) ==
  stagingPrefix \o <<componentKey>>

\* reprocessor.ts:192  `${stagingPrefix}${pi}/${componentKey}`
R2Key(stagingPrefix, pi, componentKey) ==
  stagingPrefix \o <<pi, "/", componentKey>>

\* reprocessor.ts:118  `${stagingPrefix}_manifest.json` (the file name in
\* segments, like a component name)
ManifestKey(stagingPrefix) == stagingPrefix \o << <<"_manifest", "json">> >>

\* reprocessor.ts:196: byte length of the content behind a component
ContentLength(componentKey) ==
  CASE componentKey = <<"a", "md">> -> 3
    [] componentKey = <<"b", "PNG">> -> 5
    [] OTHER -> 0

\* String.prototype.toLowerCase on the segments in use
toLowerCase(str) ==
  CASE str = "PNG" -> "png"
    [] str = "MD" -> "md"
    [] OTHER -> str

\* reprocessor.ts:231-243
typeMap ==
  [md |-> "text/markdown", txt |-> "text/plain", json |-> "application/json",
   pdf |-> "application/pdf", jpg |-> "image/jpeg", jpeg |-> "image/jpeg",
   png |-> "image/png", gif |-> "image/gif", html |-> "text/html",
   xml |-> "application/xml", csv |-> "text/csv"]

\* reprocessor.ts:228-246: filename.split('.').pop()?.toLowerCase(), looked
\* up in typeMap
inferContentType(filename) ==
  LET ext == toLowerCase(filename[Len(filename)]) IN
  IF ext \in DOMAIN typeMap THEN typeMap[ext] ELSE "application/octet-stream"

NoEntity == [pi |-> Undefined, parent_pi |-> Undefined, children_pi |-> <<>>,
             components |-> <<>>]

\* a materializeEntityToStaging call that waits for its entity
FetchingTask == [st |-> "fetching", comps |-> <<>>, entity |-> NoEntity]

\* reprocessor.ts:200-205
FileInfo(stagingPrefix, pi, componentKey) ==
  [r2_key |-> R2Key(stagingPrefix, pi, componentKey),
   file_name |-> componentKey,
   file_size |-> ContentLength(componentKey),
   content_type |-> inferContentType(componentKey)]

\* the external calls of the materializeEntityToStaging call for entityPIs[i]:
\* reprocessor.ts:173 getEntity, :189 downloadContent, :193 STAGING_BUCKET.put
GetEntityCall(i, pi) ==
  [op |-> "getEntity", task |-> i, pi |-> pi, key |-> <<>>]
DownloadContentCall(i, pi, componentKey) ==
  [op |-> "downloadContent", task |-> i, pi |-> pi, key |-> componentKey]
PutCall(i, pi, componentKey) ==
  [op |-> "put", task |-> i, pi |-> pi, key |-> componentKey]

\* mutant: totalBytes is the size of the last file
MaterializedEntityLastFileBytes(pi, entity, stagingPrefix) ==
  LET files == [k \in 1..Len(entity.components) |->
                  FileInfo(stagingPrefix, pi, entity.components[k])] IN
  [pi |-> entity.pi,
   children_pi |-> entity.children_pi,
   parent_pi |-> entity.parent_pi,
   files |-> files,
   total_bytes |-> IF files = <<>> THEN 0 ELSE files[Len(files)].file_size]

\* reprocessor.ts:208-222: the value a fulfilled task resolves to
MaterializedEntity(pi, entity, stagingPrefix) ==
  LET files == [k \in 1..Len(entity.components) |->
                  FileInfo(stagingPrefix, pi, entity.components[k])] IN
  [pi |-> entity.pi,
   children_pi |-> entity.children_pi,
   parent_pi |-> entity.parent_pi,
   files |-> files,
   total_bytes |-> SumSeq([k \in 1..Len(files) |-> files[k].file_size])]

----------------------------------------------------------------------------
(* Manifest: src/src/reprocessor.ts buildReprocessingManifest *)

\* `/${pi}`
DirPath(pi) == <<"/", pi>>

\* mutant: the description phase is looked up under the name of its flag
ProcessingConfigDescribeName(phases) ==
  [ocr |-> FALSE,
   reorganize |-> FALSE,
   pinax |-> \E k \in 1..Len(phases) : phases[k] = "pinax",
   cheimarros |-> \E k \in 1..Len(phases) : phases[k] = "cheimarros",
   describe |-> \E k \in 1..Len(phases) : phases[k] = "describe"]

\* reprocessor.ts:506-512
ProcessingConfig(phases) ==
  [ocr |-> FALSE,
   reorganize |-> FALSE,
   pinax |-> \E k \in 1..Len(phases) : phases[k] = "pinax",
   cheimarros |-> \E k \in 1..Len(phases) : phases[k] = "cheimarros",
   describe |-> \E k \in 1..Len(phases) : phases[k] = "description"]

\* reprocessor.ts:497-503
QueueFileInfo(f) ==
  [r2_key |-> f.r2_key,
   logical_path |-> f.file_name,
   file_name |-> f.file_name,
   file_size |-> f.file_size,
   content_type |-> f.content_type]

\* mutant: the parent path is built without looking whether there is a parent
DirectoryGroupParentAlways(entity, phases) ==
  LET files == [k \in 1..Len(entity.files) |-> QueueFileInfo(entity.files[k])] IN
  [directory_path |-> DirPath(entity.pi),
   processing_config |-> ProcessingConfig(phases),
   file_count |-> Len(files),
   total_bytes |-> entity.total_bytes,
   files |-> files,
   existing_pi |-> entity.pi,
   existing_children_paths |->
     [k \in 1..Len(entity.children_pi) |-> DirPath(entity.children_pi[k])],
   existing_parent_path |-> DirPath(entity.parent_pi)]

\* reprocessor.ts:494-526
DirectoryGroup(entity, phases) ==
  LET files == [k \in 1..Len(entity.files) |-> QueueFileInfo(entity.files[k])] IN
  [directory_path |-> DirPath(entity.pi),
   processing_config |-> ProcessingConfig(phases),
   file_count |-> Len(files),
   total_bytes |-> entity.total_bytes,
   files |-> files,
   existing_pi |-> entity.pi,
   existing_children_paths |->
     [k \in 1..Len(entity.children_pi) |-> DirPath(entity.children_pi[k])],
   existing_parent_path |->
     IF Truthy(entity.parent_pi) THEN DirPath(entity.parent_pi) ELSE <<>>]

\* mutant: the byte total is reduced over the file counts
buildReprocessingManifestBytesOfCounts(ents, phases, batchId) ==
  LET directories == [k \in 1..Len(ents) |-> DirectoryGroup(ents[k], phases)] IN
  [batch_id |-> batchId,
   directories |-> directories,
   total_files |->
     SumSeq([k \in 1..Len(directories) |-> directories[k].file_count]),
   total_bytes |->
     SumSeq([k \in 1..Len(directories) |-> directories[k].file_count])]

\* reprocessor.ts:484-552
buildReprocessingManifest(ents, phases, batchId) ==
  LET directories == [k \in 1..Len(ents) |-> DirectoryGroup(ents[k], phases)] IN
  [batch_id |-> batchId,
   directories |-> directories,
   total_files |->
     SumSeq([k \in 1..Len(directories) |-> directories[k].file_count]),
   total_bytes |->
     SumSeq([k \in 1..Len(directories) |-> directories[k].total_bytes])]

NoManifest == [batch_id |-> "", directories |-> <<>>,
               total_files |-> 0, total_bytes |-> 0]

\* mutant: the message counts directories where it should count files
QueueMessageCountsDirectories(m, stagingPrefix, customPrompts) ==
  [batch_id |-> m.batch_id,
   manifest_r2_key |-> ManifestKey(stagingPrefix),
   r2_prefix |-> stagingPrefix,
   total_files |-> Len(m.directories),
   total_bytes |-> m.total_bytes,
   reprocessing_mode |-> TRUE,
   custom_prompts |-> customPrompts,
   custom_note |-> "absent"]

\* reprocessor.ts:124-137: custom_note is not among the fields set
QueueMessage(m, stagingPrefix, customPrompts) ==
  [batch_id |-> m.batch_id,
   manifest_r2_key |-> ManifestKey(stagingPrefix),
   r2_prefix |-> stagingPrefix,
   total_files |-> m.total_files,
   total_bytes |-> m.total_bytes,
   reprocessing_mode |-> TRUE,
   custom_prompts |-> customPrompts,
   custom_note |-> "absent"]

----------------------------------------------------------------------------
(* Orchestration: src/src/reprocessor.ts processReprocessingRequest *)

\* reprocessor.ts:55-61 and 168-173: Promise.all over entityPIs.map starts
\* every materializeEntityToStaging call, each of which issues its getEntity
ResolverReturned ==
  /\ pc = "resolving"
  /\ r_pc = "returned"
  /\ tasks' = [i \in 1..Len(entities) |-> FetchingTask]
  /\ m_fetches' = entities
  /\ m_calls' = m_calls (+) SetToBag({GetEntityCall(i, entities[i]) :
                                       i \in 1..Len(entities)})
  /\ pc' = "materializing"
  /\ UNCHANGED <<handlerVars, request, response, m_errs, staging>>
  /\ UNCHANGED <<resolverVars, publishVars>>

\* mutant: the batch is built as soon as one task fulfils
AllFulfilledAny(ts) == \E i \in DOMAIN ts : ts[i].st = "fulfilled"

AllFulfilled(ts) == \A i \in DOMAIN ts : ts[i].st = "fulfilled"

\* mutant: the values are collected last task first
MaterializedEntitiesReversed(ts) ==
  [i \in 1..Len(entities) |->
     MaterializedEntity(entities[Len(entities) + 1 - i],
                        ts[Len(entities) + 1 - i].entity, StagingPrefix(BatchId))]

\* the values of the fulfilled tasks, in the order of entityPIs
MaterializedEntities(ts) ==
  [i \in 1..Len(entities) |->
     MaterializedEntity(entities[i], ts[i].entity, StagingPrefix(BatchId))]

\* reprocessor.ts:59-77 and index.ts:200-223: what the two Promise.all do once
\* a call returned.  The first rejection (message msg) throws out of
\* processReprocessingRequest into the handler's catch block; when the last
\* task fulfils, the manifest is built and publishReprocessingBatch puts it.
SettleMaterialization(newTasks, msg) ==
  IF pc = "materializing" /\ msg # ""
    THEN /\ response' = CatchResponse(msg)
         /\ pc' = "responded"
         /\ UNCHANGED <<manifest, p_st>>
  ELSE IF pc = "materializing" /\ AllFulfilled(newTasks)
    THEN /\ manifest' = buildReprocessingManifest(
                          MaterializedEntities(newTasks), request.phases, BatchId)
         /\ p_st' = "putting"
         /\ pc' = "publishing"
         /\ UNCHANGED response
  ELSE UNCHANGED <<pc, response, manifest, p_st>>

\* mutant: the task fulfils when its downloads have returned, without awaiting
\* the staging writes
TaskStatusFulfilledOnDownload(st, comps) ==
  IF st # "running" THEN st
  ELSE IF \E c \in DOMAIN comps : comps[c] = "failed" THEN "rejected"
  ELSE IF \A c \in DOMAIN comps : comps[c] \in {"putting", "done"}
    THEN "fulfilled"
  ELSE "running"

\* mutant: an entity without components is refused
TaskStatusEmptyRejected(st, comps) ==
  IF st # "running" THEN st
  ELSE IF DOMAIN comps = {} THEN "rejected"
  ELSE IF \E c \in DOMAIN comps : comps[c] = "failed" THEN "rejected"
  ELSE IF \A c \in DOMAIN comps : comps[c] = "done" THEN "fulfilled"
  ELSE "running"

\* the promise of `Promise.all(downloadPromises)` (reprocessor.ts:208) after
\* one component changed: fulfilled when every component is done, rejected
\* by the first failure
TaskStatus(st, comps) ==
  IF st # "running" THEN st
  ELSE IF \E c \in DOMAIN comps : comps[c] = "failed" THEN "rejected"
  ELSE IF \A c \in DOMAIN comps : comps[c] = "done" THEN "fulfilled"
  ELSE "running"

\* reprocessor.ts:173-189: the entity arrives; every component download starts
MaterializeGetEntityReturns(i) ==
  /\ tasks[i].st = "fetching"
  /\ \E outcome \in GetEntityOutcomes(entities[i]) :
       LET entity == IF outcome = "ok" THEN store[entities[i]] ELSE NoEntity
           names  == {entity.components[k] : k \in 1..Len(entity.components)}
           comps  == [c \in names |-> "downloading"]
           st     == IF outcome # "ok" THEN "rejected"
                     ELSE TaskStatus("running", comps)
           newTasks == [tasks EXCEPT ![i] =
                          [st |-> st, comps |-> comps, entity |-> entity]]
       IN /\ tasks' = newTasks
          /\ m_calls' = m_calls (+) SetToBag({DownloadContentCall(i, entities[i], c) :
                                               c \in names})
          /\ m_errs' = IF outcome = "ok" THEN m_errs ELSE Append(m_errs, outcome)
          /\ SettleMaterialization(newTasks, IF outcome = "ok" THEN "" ELSE outcome)
  /\ UNCHANGED <<handlerVars, request, m_fetches, staging, queue>>
  /\ UNCHANGED resolverVars

\* reprocessor.ts:189-193: a download returns; its content is put to staging
DownloadReturns(i, c) ==
  /\ c \in DOMAIN tasks[i].comps
  /\ tasks[i].comps[c] = "downloading"
  /\ \E outcome \in DownloadContentOutcomes :
       LET comps == [tasks[i].comps EXCEPT
                       ![c] = IF outcome = "ok" THEN "putting" ELSE "failed"]
           newTasks == [tasks EXCEPT ![i].comps = comps,
                                     ![i].st = TaskStatus(tasks[i].st, comps)]
       IN /\ tasks' = newTasks
          /\ m_calls' = IF outcome = "ok"
                          THEN m_calls (+) SetToBag({PutCall(i, entities[i], c)})
                          ELSE m_calls
          /\ m_errs' = IF outcome = "ok" THEN m_errs ELSE Append(m_errs, outcome)
          /\ SettleMaterialization(newTasks, IF outcome = "ok" THEN "" ELSE outcome)
  /\ UNCHANGED <<handlerVars, request, m_fetches, staging, queue>>
  /\ UNCHANGED resolverVars

\* reprocessor.ts:193-206: STAGING_BUCKET.put returns
PutReturns(i, c) ==
  /\ c \in DOMAIN tasks[i].comps
  /\ tasks[i].comps[c] = "putting"
  /\ \E outcome \in {"ok", "put failed"} :
       LET comps == [tasks[i].comps EXCEPT
                       ![c] = IF outcome = "ok" THEN "done" ELSE "failed"]
           newTasks == [tasks EXCEPT ![i].comps = comps,
                                     ![i].st = TaskStatus(tasks[i].st, comps)]
       IN /\ tasks' = newTasks
          /\ staging' = IF outcome = "ok"
                          THEN staging \cup
                                 {R2Key(StagingPrefix(BatchId), entities[i], c)}
                          ELSE staging
          /\ m_errs' = IF outcome = "ok" THEN m_errs ELSE Append(m_errs, outcome)
          /\ SettleMaterialization(newTasks, IF outcome = "ok" THEN "" ELSE outcome)
  /\ UNCHANGED <<handlerVars, request, m_fetches, m_calls, queue>>
  /\ UNCHANGED resolverVars

----------------------------------------------------------------------------
(* Publish: src/src/reprocessor.ts publishReprocessingBatch *)

\* reprocessor.ts:119-140: the manifest put returns; the queue send starts
ManifestPutReturns ==
  /\ p_st = "putting"
  /\ \E outcome \in {"ok", "put failed"} :
       IF outcome = "ok"
         THEN /\ staging' = staging \cup {ManifestKey(StagingPrefix(BatchId))}
              /\ p_st' = "sending"
              /\ UNCHANGED <<pc, response>>
         ELSE /\ p_st' = "putFailed"
              /\ response' = CatchResponse(outcome)
              /\ pc' = "responded"
              /\ UNCHANGED staging
  /\ UNCHANGED <<handlerVars, request, tasks, m_fetches, m_calls, m_errs, manifest,
                 queue>>
  /\ UNCHANGED resolverVars

\* reprocessor.ts:140, 78-105 and index.ts:198: the queue send returns
QueueSendReturns ==
  /\ p_st = "sending"
  /\ \E outcome \in {"ok", "send failed"} :
       IF outcome = "ok"
         THEN /\ queue' = Append(queue, QueueMessage(manifest,
                            StagingPrefix(BatchId), request.customPrompts))
              /\ p_st' = "sent"
              /\ response' = SuccessResponse(BatchId, entities)
         ELSE /\ p_st' = "sendFailed"
              /\ response' = CatchResponse(outcome)
              /\ UNCHANGED queue
  /\ pc' = "responded"
  /\ UNCHANGED <<handlerVars, request, materializeVars, manifest>>
  /\ UNCHANGED resolverVars

----------------------------------------------------------------------------
(* Entity stores *)

RECURSIVE SortedSeq(_)
SortedSeq(S) ==
  IF S = {} THEN <<>>
  ELSE LET m == CHOOSE x \in S : \A y \in S : x <= y
       IN <<m>> \o SortedSeq(S \ {m})

\* the store that holds the entities DOMAIN parents, entity id with parent
\* parents[id], with the entities naming it as parent as its children and
\* with the first ncomps[id] component names
StoreOf(parents, ncomps) ==
  [id \in DOMAIN parents |->
     [pi |-> id,
      parent_pi |-> parents[id],
      children_pi |-> SortedSeq({c \in DOMAIN parents : parents[c] = id}),
      components |-> SubSeq(CompNameSeq, 1, ncomps[id])]]

\* a chain 1 -> 2 -> ... -> len whose last entity has parent tail
ChainParents(len, tail) ==
  [id \in 1..len |-> IF id < len THEN id + 1 ELSE tail]

----------------------------------------------------------------------------
(* The request specification: one request from arrival to response *)

\* the body `null`: valid JSON that is not an object
NullBody ==
  [json |-> "null", pi |-> Undefined,
   phases |-> [kind |-> "missing", items |-> <<>>], cascade |-> "false",
   stop_at_pi |-> Undefined, custom_prompts |-> "absent",
   custom_note |-> "absent"]

Bodies ==
  {NullBody} \cup
  [json : {"object"},
   pi : {Undefined, Malformed, 1, NumIds + 1},
   phases : {[kind |-> "array", items |-> <<"description">>],
             [kind |-> "array", items |-> <<>>]},
   cascade : {"true", "false"},
   stop_at_pi : {Undefined, EmptyStr, Malformed, NO_PARENT_SENTINEL,
                 NumIds, NumIds + 1},
   custom_prompts : {"absent"},
   custom_note : {"absent"}]

\* every parent graph over the entities 1..NumIds (parents may be absent, the
\* sentinel, any entity or the missing entity NumIds + 1); entity 1, the
\* target of the requests, carries up to MaxComps components and the other
\* entities carry one component when it carries any
Stores ==
  {StoreOf(parents, [id \in 1..NumIds |-> IF id = 1 \/ n = 0 THEN n ELSE 1]) :
     parents \in [1..NumIds -> {Undefined, NO_PARENT_SENTINEL} \cup 1..(NumIds + 1)],
     n \in 0..MaxComps}

InitRest ==
  /\ response = NoResponse
  /\ r_pc = "idle"
  /\ entities = <<>>
  /\ currentPI = Undefined
  /\ depth = 0
  /\ r_fetches = <<>>
  /\ r_err = ""
  /\ tasks = <<>>
  /\ m_fetches = <<>>
  /\ m_calls = EmptyBag
  /\ m_errs = <<>>
  /\ staging = {}
  /\ manifest = NoManifest
  /\ p_st = "idle"
  /\ queue = <<>>

Init ==
  /\ body \in Bodies
  /\ store \in Stores
  /\ pc = "received"
  /\ permCalls = <<>>
  /\ permCheck = NoPermCheck
  /\ request = NoRequest
  /\ InitRest

Next ==
  \/ HandleReprocessRequest
  \/ PermissionReturns
  \/ ProcessReprocessingRequest
  \/ ResolverGetEntityReturns
  \/ ResolverThrew
  \/ ResolverReturned
  \/ \E i \in DOMAIN tasks : MaterializeGetEntityReturns(i)
  \/ \E i \in DOMAIN tasks : \E c \in DOMAIN tasks[i].comps : DownloadReturns(i, c)
  \/ \E i \in DOMAIN tasks : \E c \in DOMAIN tasks[i].comps : PutReturns(i, c)
  \/ ManifestPutReturns
  \/ QueueSendReturns

Spec == Init /\ [][Next]_vars

----------------------------------------------------------------------------
(* The resolver specification: processReprocessingRequest is called with a *)
(* request the handler accepted and resolves the chain, over small         *)
(* arbitrary parent graphs and over chains as long as the hop ceiling      *)

SmallGraphs ==
  [1..SmallN -> {Undefined, EmptyStr, NO_PARENT_SENTINEL} \cup 1..(SmallN + 1)]

ChainLens == {3} \cup (maxDepth - 1)..(maxDepth + ChainExtra)

\* a chain ends without parent, under the sentinel, under an entity outside
\* the chain, in a cycle back to its start or in a self-parent
ChainGraphs ==
  {ChainParents(len, tail) :
     len \in ChainLens, tail \in {Undefined, NO_PARENT_SENTINEL}}
  \cup {ChainParents(len, len + 1) : len \in ChainLens}
  \cup {ChainParents(len, 1) : len \in ChainLens}
  \cup {ChainParents(len, len) : len \in ChainLens}

Graphs == SmallGraphs \cup ChainGraphs

\* the permission service lets the user edit an entity of no collection
FreeEntityPermissions == [kind |-> "ok", canEdit |-> TRUE, rootPi |-> Undefined]

\* the body of the accepted request that leads to the call
BodyOf(pi, cascade, stopAtPI) ==
  [json |-> "object", pi |-> pi,
   phases |-> [kind |-> "array", items |-> <<"description">>],
   cascade |-> IF cascade THEN "true" ELSE "false",
   stop_at_pi |-> stopAtPI,
   custom_prompts |-> "absent",
   custom_note |-> "absent"]

InitResolve ==
  /\ \E parents \in Graphs :
       /\ store = StoreOf(parents, [id \in DOMAIN parents |-> 0])
       /\ \E pi \in {1, 2, SmallN + 1} :
          \E stopAtPI \in {NO_PARENT_SENTINEL, 1, 2, SmallN + 1,
                           maxDepth, maxDepth + 1} :
          \E cascade \in BOOLEAN :
            /\ body = BodyOf(pi, cascade, stopAtPI)
            /\ permCalls = <<pi>>
            /\ permCheck = checkReprocessPermission(FreeEntityPermissions)
            /\ request = BuildRequest(body, permCheck)
  /\ pc = "process"
  /\ InitRest

NextResolve ==
  \/ ProcessReprocessingRequest
  \/ ResolverGetEntityReturns

SpecResolve == InitResolve /\ [][NextResolve]_vars

\* every entity fetch returns: the resolver is never left waiting
SpecResolveFair == SpecResolve /\ WF_vars(NextResolve)

----------------------------------------------------------------------------
(* Vocabulary of the properties *)

\* the request's external effects so far
NoEntityFetched == r_fetches = <<>> /\ m_fetches = <<>>
NothingStaged == staging = {}
NoQueueSend == p_st \notin {"sending", "sendFailed", "sent"} /\ queue = <<>>

\* a parent value that ends a chain: absent, the sentinel or the stop boundary
EndsChain(parent, stopId) ==
  parent \in {Undefined, EmptyStr, NO_PARENT_SENTINEL, stopId}

\* list is the walk up from pi through entities whose parent does not end the
\* chain: it starts at pi and each next element is the parent of the one
\* before, an entity of the store whose parent is no stop condition
WalkFrom(pi, stopId, list) ==
  /\ Len(list) >= 1
  /\ list[1] = pi
  /\ \A k \in 1..(Len(list) - 1) :
       /\ list[k] \in DOMAIN store
       /\ ~EndsChain(store[list[k]].parent_pi, stopId)
       /\ list[k + 1] = store[list[k]].parent_pi

\* the last element of the walk meets a stop condition: with WalkFrom, pi has
\* exactly Len(list) - 1 ancestors before a stop condition
EndsAtStop(stopId, list) ==
  /\ list[Len(list)] \in DOMAIN store
  /\ EndsChain(store[list[Len(list)]].parent_pi, stopId)

\* the entities above id: its parent, its parent's parent, ... (fuel bounds
\* the walk on cyclic graphs)
RECURSIVE StrictAncestors(_, _)
StrictAncestors(id, fuel) ==
  IF fuel = 0 \/ id \notin DOMAIN store THEN {}
  ELSE LET p == store[id].parent_pi IN
       IF p < 1 THEN {} ELSE {p} \cup StrictAncestors(p, fuel - 1)

AncestorsOf(id) == StrictAncestors(id, Cardinality(DOMAIN store) + 1)

NoDuplicates(list) ==
  \A i \in 1..Len(list) : \A j \in 1..Len(list) : i # j => list[i] # list[j]

----------------------------------------------------------------------------
(* Properties *)

\* C1: the queue send starts only after chain resolution returned, every
\* resolved entity is materialized (every component downloaded and written to
\* staging) and the manifest is written to staging; a request in which one of
\* these steps failed sends no queue message.
C1_QueueSendAfterAllSucceeded ==
  /\ ~NoQueueSend =>
       /\ r_pc = "returned"
       /\ DOMAIN tasks = 1..Len(entities)
       /\ \A i \in DOMAIN tasks :
            /\ tasks[i].st = "fulfilled"
            /\ \A k \in 1..Len(store[entities[i]].components) :
                 LET c == store[entities[i]].components[k] IN
                 /\ c \in DOMAIN tasks[i].comps
                 /\ tasks[i].comps[c] = "done"
                 /\ R2Key(StagingPrefix(BatchId), entities[i], c) \in staging
       /\ ManifestKey(StagingPrefix(BatchId)) \in staging
  /\ ( \/ r_pc = "thrown"
       \/ \E i \in DOMAIN tasks :
            \/ tasks[i].st = "rejected"
            \/ \E c \in DOMAIN tasks[i].comps : tasks[i].comps[c] = "failed"
       \/ p_st = "putFailed" ) => NoQueueSend

\* C1 witness: a cascade batch of two entities with components is published
C1_Witness ==
  /\ Len(queue) = 1
  /\ Len(entities) = 2
  /\ Cardinality(staging) = 3

\* C2: with cascade, when the target has d < maxDepth ancestors before a stop
\* condition and every fetch succeeds, the resolver returns exactly the d+1
\* identifiers target, parent, grandparent, ... in this order, and the parent
\* of the last one is absent, the sentinel or the stop boundary.  (The walk up
\* from the target is unique: the resolver's list is always that walk, it is
\* returned when its last entity ends the chain at d = Len - 1 < maxDepth, and
\* the resolver throws only when the walk leaves the store or d >= maxDepth.)
C2_NaturalChainResolved ==
  (r_pc \in {"returned", "thrown"} /\ request.cascade
     /\ r_err # "Failed to fetch entity") =>
    LET d == Len(entities) - 1 IN
    /\ WalkFrom(request.pi, request.stopAtPI, entities)
    /\ IF EndsAtStop(request.stopAtPI, entities)
         THEN d < maxDepth => r_pc = "returned"
         ELSE /\ r_pc = "thrown"
              /\ entities[d + 1] \notin DOMAIN store \/ d >= maxDepth

\* C2 witness: the longest chain under the ceiling (d = maxDepth - 1) resolved
C2_Witness ==
  /\ r_pc = "returned"
  /\ request.cascade
  /\ Len(entities) = maxDepth
  /\ EndsAtStop(request.stopAtPI, entities)

\* C3: without cascade the resolver returns exactly [target], for every
\* target (in the store or not) and every stop boundary, and fetches no entity.
C3_SingleEntityMode ==
  (~request.cascade /\ pc # "process") =>
    /\ r_pc = "returned"
    /\ entities = <<request.pi>>
    /\ r_fetches = <<>>

\* C3 witness: single-entity resolution of a target the store does not hold
C3_Witness ==
  /\ ~request.cascade
  /\ r_pc = "returned"
  /\ request.pi \notin DOMAIN store
  /\ request.stopAtPI = request.pi

\* C4: when the walk reaches the hop ceiling without a stop condition the
\* resolver throws the depth error and returns no list; the request then
\* fetches nothing for materialization, writes nothing to staging, sends no
\* queue message and answers with an error that carries no identifiers.
C4_DepthExceededAborts ==
  /\ depth >= maxDepth => r_pc = "thrown" /\ r_err = "Max depth"
  /\ r_err = "Max depth" =>
       /\ r_pc = "thrown"
       /\ tasks = <<>> /\ m_fetches = <<>>
       /\ NothingStaged
       /\ NoQueueSend
       /\ pc = "responded" => response.status = 500 /\ response.entity_pis = <<>>

\* C4 witness: a request answered after the depth error
C4_Witness ==
  /\ r_err = "Max depth"
  /\ depth = maxDepth
  /\ pc = "responded"

\* C5: on every parent graph, cyclic or not, the resolver fetches at most
\* maxDepth entities and, as every fetch returns, ends by returning or throwing.
C5_ResolverTerminates ==
  /\ [](Len(r_fetches) <= maxDepth)
  /\ <>(r_pc \in {"returned", "thrown"})

\* C5 witness: the walk on a self-parent target ended after maxDepth fetches
C5_Witness ==
  /\ r_pc = "thrown"
  /\ Len(r_fetches) = maxDepth
  /\ request.pi \in DOMAIN store
  /\ store[request.pi].parent_pi = request.pi

\* C6: every list the resolver returns starts with the target and holds no
\* identifier twice, on every parent graph and for every stop boundary.
C6_ReturnedListDistinctTargetFirst ==
  r_pc = "returned" =>
    /\ Len(entities) >= 1
    /\ entities[1] = request.pi
    /\ NoDuplicates(entities)

\* C6 witness: a list of two returned from a two-entity cycle
C6_Witness ==
  /\ r_pc = "returned"
  /\ Len(entities) = 2
  /\ entities[2] \in DOMAIN store
  /\ store[entities[2]].parent_pi = request.pi

C8_ForbiddenDoesNothing ==
  (permCheck.permissions.kind = "ok" /\ ~permCheck.permissions.canEdit) =>
    /\ pc = "responded"
    /\ response.status = 403
    /\ response.error = "FORBIDDEN"
    /\ NoEntityFetched
    /\ tasks = <<>>
    /\ NothingStaged
    /\ NoQueueSend

\* C8 witness: a well-formed cascade request refused for an entity of a
\* collection
C8_Witness ==
  /\ permCheck.permissions.kind = "ok"
  /\ ~permCheck.permissions.canEdit
  /\ permCheck.permissions.rootPi # Undefined
  /\ body.cascade = "true"
  /\ pc = "responded"

\* C9: the stop boundary handed to chain resolution is the client's
\* stop_at_pi when one was supplied (an empty string is none), else the
\* rootPi of the collection the permission service reported, else the
\* all-zero sentinel.
C9_StopBoundaryPrecedence ==
  pc \in {"process", "resolving", "materializing", "publishing"} =>
    request.stopAtPI =
      IF body.stop_at_pi \notin {Undefined, EmptyStr} THEN body.stop_at_pi
      ELSE IF permCheck.permissions.rootPi # Undefined
        THEN permCheck.permissions.rootPi
      ELSE NO_PARENT_SENTINEL

\* C9 witness: an explicit boundary wins over a different collection root
C9_Witness ==
  /\ pc = "resolving"
  /\ body.stop_at_pi = NumIds
  /\ permCheck.permissions.rootPi = 1
  /\ request.stopAtPI = NumIds

\* C10: for a permitted cascade request without explicit stop_at_pi whose
\* target belongs to the collection rooted at R (R is the target or one of
\* its ancestors, in an acyclic chain), the resolved list holds no strict
\* ancestor of R.
C10_NoCascadeAboveCollectionRoot ==
  LET R == permCheck.cascadeStopPi IN
  ( /\ r_pc = "returned"
    /\ request.cascade
    /\ body.stop_at_pi = Undefined
    /\ permCheck.allowed
    /\ Truthy(R)
    /\ R = request.pi \/ R \in AncestorsOf(request.pi)
    /\ \A id \in {request.pi} \cup AncestorsOf(request.pi) : id \notin AncestorsOf(id) )
  => \A k \in 1..Len(entities) : entities[k] \notin AncestorsOf(R)

\* the entities of the collection rooted at R that the target belongs to: the
\* chain from the target up to R
CollectionChain(pi, R) ==
  {id \in {pi} \cup AncestorsOf(pi) : id = R \/ R \in AncestorsOf(id)}

\* the chain above the target is a chain: no entity is its own ancestor
AcyclicAbove(pi) ==
  \A id \in {pi} \cup AncestorsOf(pi) : id \notin AncestorsOf(id)

\* C11: for a permitted cascade request whose explicit stop_at_pi lies outside
\* the collection of the target (rooted at R, the target or one of its
\* ancestors in an acyclic chain), the resolved list holds no strict ancestor
\* of R.
C11_ExplicitStopOutsideCollection ==
  LET R == permCheck.permissions.rootPi IN
  ( /\ r_pc = "returned"
    /\ request.cascade
    /\ permCheck.allowed
    /\ Truthy(R)
    /\ R = request.pi \/ R \in AncestorsOf(request.pi)
    /\ AcyclicAbove(request.pi)
    /\ Truthy(body.stop_at_pi)
    /\ body.stop_at_pi \notin CollectionChain(request.pi, R) )
  => \A k \in 1..Len(entities) : entities[k] \notin AncestorsOf(R)

\* C12: a permitted cascade request without explicit stop_at_pi for a target
\* whose parent is the root of its collection is answered with entity_pis
\* that holds the target and the root, entities_queued = 2.
C12_CascadeFromChildIncludesRoot ==
  ( /\ pc = "responded"
    /\ response.status = 200
    /\ request.cascade
    /\ body.stop_at_pi = Undefined
    /\ Truthy(permCheck.cascadeStopPi)
    /\ store[request.pi].parent_pi = permCheck.cascadeStopPi
    /\ permCheck.cascadeStopPi # request.pi )
  => /\ response.entities_queued = 2
     /\ \E k \in 1..Len(response.entity_pis) :
          response.entity_pis[k] = request.pi
     /\ \E k \in 1..Len(response.entity_pis) :
          response.entity_pis[k] = permCheck.cascadeStopPi

\* C13: with cascade the resolved list never holds the stop identifier, an
\* ancestor of the stop identifier or the root sentinel, for every target and
\* every stop boundary.
C13_ListExcludesStopAndAbove ==
  (r_pc = "returned" /\ request.cascade) =>
    \A k \in 1..Len(entities) :
      /\ entities[k] # request.stopAtPI
      /\ entities[k] \notin AncestorsOf(request.stopAtPI)
      /\ entities[k] # NO_PARENT_SENTINEL

\* README.md:278: component downloads are attempted three times
RetryAttempts == 3

\* C14: a call of materialization that fails is issued again until it has
\* been attempted RetryAttempts times: a materializeEntityToStaging call is
\* rejected (and with it the request) only when one of its external calls
\* (entity fetch, component download, staging write) was attempted
\* RetryAttempts times.
C14_RetriedBeforeFailure ==
  \A i \in DOMAIN tasks :
    tasks[i].st = "rejected" =>
      \E call \in BagToSet(m_calls) :
        /\ call.task = i
        /\ CopiesIn(call, m_calls) >= RetryAttempts

\* the external calls of materialization that have been issued and have not
\* returned
InFlight ==
  Cardinality({i \in DOMAIN tasks : tasks[i].st = "fetching"})
  + SumSeq([i \in DOMAIN tasks |->
              Cardinality({c \in DOMAIN tasks[i].comps :
                             tasks[i].comps[c] \in {"downloading", "putting"}})])

\* the largest bound on the calls in flight that the stores of the model can
\* tell from no bound: one less than all the calls of one stage of a request
InFlightLimit == NumIds * MaxComps - 1

\* C15: the number of external calls in flight during materialization never
\* exceeds a fixed bound that does not grow with the number of resolved
\* entities or of components per entity.
C15_BoundedInFlight == InFlight <= InFlightLimit

\* C16: publishing is atomic: when a request has been answered, the manifest
\* object is in staging exactly if the queue message was sent.
C16_PublishAtomic ==
  pc = "responded" =>
    (ManifestKey(StagingPrefix(BatchId)) \in staging <=> Len(queue) = 1)

\* C17: the manifest holds one directory per resolved identifier, in the
\* order of the resolved list: directory i has existing_pi entity_pis[i] and
\* directory_path "/" + entity_pis[i], whatever the order in which the
\* materializations completed; the success response lists the same
\* identifiers.
C17_ManifestFollowsResolvedOrder ==
  /\ p_st # "idle" =>
       /\ Len(manifest.directories) = Len(entities)
       /\ \A i \in 1..Len(entities) :
            /\ manifest.directories[i].existing_pi = entities[i]
            /\ manifest.directories[i].directory_path = <<"/", entities[i]>>
  /\ response.status = 200 =>
       /\ response.entity_pis = entities
       /\ Len(manifest.directories) = response.entities_queued

\* C17 witness: the manifest of a cascade over two entities with components
\* was published
C17_Witness ==
  /\ response.status = 200
  /\ Len(response.entity_pis) = 2
  /\ manifest.directories[2].existing_pi = response.entity_pis[2]
  /\ manifest.directories[2].file_count = 1

----------------------------------------------------------------------------
(* The manifest specification: buildReprocessingManifest is applied to the *)
(* materialized entities and the phases of an accepted request, at the     *)
(* moment the last materializeEntityToStaging call has fulfilled.  The     *)
(* entities are those the materializer fetched, whatever the resolver saw  *)
(* of them before.                                                         *)

\* the builder is given up to MaxDirs materialized entities
MaxDirs == 2

\* phases lists that pass validation: one phase, several, all, a repetition
PhaseLists ==
  {<<"description">>, <<"pinax">>, <<"cheimarros", "pinax">>,
   <<"pinax", "cheimarros", "description">>, <<"description", "description">>}

\* children lists as the store returns them, in the store's order
ChildLists(n) == {<<>>, <<n + 3, n + 2>>}

\* what the store may hold under an identifier: any parent value, a children
\* list, no component, one or all
BuildEntities(n) ==
  [parent_pi : {Undefined, EmptyStr, NO_PARENT_SENTINEL, n + 1},
   children_pi : ChildLists(n),
   components : {SubSeq(CompNameSeq, 1, k) : k \in {0, 1, Len(CompNameSeq)}}]

\* the fulfilled materializeEntityToStaging call of entity e
FulfilledTask(e) ==
  [st |-> "fulfilled",
   comps |-> [c \in {e.components[k] : k \in 1..Len(e.components)} |-> "done"],
   entity |-> e]

InitBuild ==
  /\ \E n \in 1..MaxDirs :
     \E es \in [1..n -> BuildEntities(n)] :
     \E phases \in PhaseLists :
       LET st == [id \in 1..n |->
                    [pi |-> id, parent_pi |-> es[id].parent_pi,
                     children_pi |-> es[id].children_pi,
                     components |-> es[id].components]] IN
       /\ store = st
       /\ body = [BodyOf(1, n > 1, Undefined) EXCEPT
                    !.phases = [kind |-> "array", items |-> phases]]
       /\ entities = [i \in 1..n |-> i]
       /\ tasks = [i \in 1..n |-> FulfilledTask(st[i])]
       /\ staging = UNION {{R2Key(StagingPrefix(BatchId), i, st[i].components[k]) :
                               k \in 1..Len(st[i].components)} : i \in 1..n}
       /\ m_calls = SetToBag(UNION {
            {GetEntityCall(i, i)}
            \cup {DownloadContentCall(i, i, st[i].components[k]) :
                    k \in 1..Len(st[i].components)}
            \cup {PutCall(i, i, st[i].components[k]) :
                    k \in 1..Len(st[i].components)} : i \in 1..n})
  /\ permCalls = <<1>>
  /\ permCheck = checkReprocessPermission(FreeEntityPermissions)
  /\ request = BuildRequest(body, permCheck)
  /\ pc = "materializing"
  /\ response = NoResponse
  /\ r_pc = "returned"
  /\ currentPI = IF request.cascade THEN entities[Len(entities)] ELSE Undefined
  /\ depth = Len(entities) - 1
  /\ r_fetches = IF request.cascade THEN entities ELSE <<>>
  /\ r_err = ""
  /\ m_fetches = entities
  /\ m_errs = <<>>
  /\ manifest = NoManifest
  /\ p_st = "idle"
  /\ queue = <<>>

\* reprocessor.ts:67-77: the manifest is built from the materialized entities
\* and handed to publishReprocessingBatch, which puts it to staging
BuildManifest ==
  /\ pc = "materializing"
  /\ AllFulfilled(tasks)
  /\ manifest' = buildReprocessingManifest(
                   MaterializedEntities(tasks), request.phases, BatchId)
  /\ p_st' = "putting"
  /\ pc' = "publishing"
  /\ UNCHANGED <<handlerVars, request, response, resolverVars, materializeVars,
                 queue>>

SpecBuild == InitBuild /\ [][BuildManifest]_vars


----------------------------------------------------------------------------
(* Properties of the manifest *)

\* the manifest has been built
ManifestBuilt == p_st # "idle"

\* the sum of file_count / of total_bytes over the first n directories
RECURSIVE FileCountUpTo(_, _)
FileCountUpTo(dirs, n) ==
  IF n = 0 THEN 0 ELSE FileCountUpTo(dirs, n - 1) + dirs[n].file_count

RECURSIVE TotalBytesUpTo(_, _)
TotalBytesUpTo(dirs, n) ==
  IF n = 0 THEN 0 ELSE TotalBytesUpTo(dirs, n - 1) + dirs[n].total_bytes

\* C18: for every list of materialized entities and every phases list the
\* manifest's total_files is the sum of file_count over its directories and
\* its total_bytes the sum of total_bytes over its directories.
C18_ManifestTotals ==
  ManifestBuilt =>
    LET dirs == manifest.directories IN
    /\ manifest.total_files = FileCountUpTo(dirs, Len(dirs))
    /\ manifest.total_bytes = TotalBytesUpTo(dirs, Len(dirs))

\* C18 witness: a manifest of two directories with different file counts and
\* byte totals
C18_Witness ==
  /\ ManifestBuilt
  /\ Len(manifest.directories) = 2
  /\ manifest.directories[1].file_count = 1
  /\ manifest.directories[2].file_count = 3
  /\ manifest.total_files = 4
  /\ manifest.total_bytes = 11

\* C19: in every directory processing_config.pinax is true exactly if the
\* phases hold "pinax", cheimarros exactly if they hold "cheimarros", describe
\* exactly if they hold "description", and ocr and reorganize are false; the
\* phases ["description"] give describe alone.
C19_ProcessingConfigFollowsPhases ==
  ManifestBuilt =>
    LET phaseSet == {body.phases.items[k] : k \in 1..Len(body.phases.items)} IN
    \A i \in 1..Len(manifest.directories) :
      LET config == manifest.directories[i].processing_config IN
      /\ config.pinax <=> "pinax" \in phaseSet
      /\ config.cheimarros <=> "cheimarros" \in phaseSet
      /\ config.describe <=> "description" \in phaseSet
      /\ ~config.ocr
      /\ ~config.reorganize
      /\ body.phases.items = <<"description">> =>
           config = [ocr |-> FALSE, reorganize |-> FALSE, pinax |-> FALSE,
                     cheimarros |-> FALSE, describe |-> TRUE]

\* C19 witness: two directories built for the phases ["description"]
C19_Witness ==
  /\ ManifestBuilt
  /\ body.phases.items = <<"description">>
  /\ Len(manifest.directories) = 2
  /\ manifest.directories[2].processing_config.describe

\* C20: in every directory existing_parent_path is present exactly if the
\* entity the store returned carries a parent (a non-empty parent_pi), and is
\* then "/" + parent_pi; existing_children_paths holds "/" + child for every
\* child of that entity, in the entity's order.
C20_ParentAndChildrenPaths ==
  ManifestBuilt =>
    \A i \in 1..Len(manifest.directories) :
      LET dir == manifest.directories[i]
          source == store[entities[i]] IN
      /\ dir.existing_parent_path # <<>> <=>
           source.parent_pi \notin {Undefined, EmptyStr}
      /\ dir.existing_parent_path # <<>> =>
           dir.existing_parent_path = <<"/", source.parent_pi>>
      /\ Len(dir.existing_children_paths) = Len(source.children_pi)
      /\ \A k \in 1..Len(source.children_pi) :
           dir.existing_children_paths[k] = <<"/", source.children_pi[k]>>

\* C20 witness: a directory without parent path and a directory with parent
\* path and two children paths
C20_Witness ==
  /\ ManifestBuilt
  /\ Len(manifest.directories) = 2
  /\ manifest.directories[1].existing_parent_path = <<>>
  /\ manifest.directories[2].existing_parent_path # <<>>
  /\ Len(manifest.directories[2].existing_children_paths) = 2


----------------------------------------------------------------------------
(* Properties of materialization *)

\* the staging writes materialization has issued
PutCalls == {call \in BagToSet(m_calls) : call.op = "put"}

\* the key a staging write targets
KeyOf(call) == R2Key(StagingPrefix(BatchId), call.pi, call.key)

\* the component objects in staging
ComponentObjects == staging \ {ManifestKey(StagingPrefix(BatchId))}

\* C22: an entity the store returns without components is materialized at
\* once: its task fulfils with no file and zero bytes, issues no download and
\* no staging write and leaves no object in staging, and the manifest holds
\* its directory with file_count 0; the request goes on to publish.
C22_ZeroComponentsMaterialize ==
  \A i \in DOMAIN tasks :
    (tasks[i].entity # NoEntity /\ tasks[i].entity.components = <<>>) =>
      LET m == MaterializedEntity(entities[i], tasks[i].entity,
                                  StagingPrefix(BatchId)) IN
      /\ tasks[i].st = "fulfilled"
      /\ m.files = <<>>
      /\ m.total_bytes = 0
      /\ \A call \in BagToSet(m_calls) : call.task = i => call.op = "getEntity"
      /\ \A key \in ComponentObjects : key[4] # entities[i]
      /\ ManifestBuilt =>
           /\ manifest.directories[i].existing_pi = entities[i]
           /\ manifest.directories[i].file_count = 0
           /\ manifest.directories[i].files = <<>>
           /\ manifest.directories[i].total_bytes = 0

\* C22 witness: a batch of two entities without components is published
C22_Witness ==
  /\ response.status = 200
  /\ Len(queue) = 1
  /\ Len(entities) = 2
  /\ tasks[2].entity.components = <<>>
  /\ manifest.directories[2].file_count = 0

\* C23: within a request every staging write has its own key: no write is
\* issued twice, two writes never target the same key, no write targets the
\* manifest key, and staging holds one object per completed write.
C23_DistinctStagingKeys ==
  /\ \A call \in PutCalls : CopiesIn(call, m_calls) = 1
  /\ \A c1 \in PutCalls : \A c2 \in PutCalls :
       c1 # c2 => KeyOf(c1) # KeyOf(c2)
  /\ \A call \in PutCalls : KeyOf(call) # ManifestKey(StagingPrefix(BatchId))
  /\ Cardinality(ComponentObjects) =
       Cardinality({call \in PutCalls :
                      tasks[call.task].comps[call.key] = "done"})

\* C23 witness: the same component name of two entities is in staging twice,
\* next to the manifest
C23_Witness ==
  /\ Len(entities) = 2
  /\ Cardinality(ComponentObjects) = 2
  /\ \A i \in 1..2 : tasks[i].entity.components = << <<"a", "md">> >>
  /\ ManifestKey(StagingPrefix(BatchId)) \in staging


----------------------------------------------------------------------------
(* Error responses: src/src/index.ts:200-223 *)

\* the messages of the two not-found errors (reprocessor.ts:266 and 283)
NotFoundMessages == {"Entity not found", "Content not found"}

\* some fetch of the request has returned not-found
SawNotFound ==
  \/ r_err \in NotFoundMessages
  \/ \E k \in 1..Len(m_errs) : m_errs[k] \in NotFoundMessages

\* the message of the first error thrown while the request was processed,
\* "" when nothing has failed: resolution precedes materialization, which
\* precedes the publish
FirstFailure ==
  IF r_err # "" THEN r_err
  ELSE IF m_errs # <<>> THEN m_errs[1]
  ELSE IF p_st = "putFailed" THEN "put failed"
  ELSE IF p_st = "sendFailed" THEN "send failed"
  ELSE ""

\* C24 as stated: once any entity or content fetch has returned not-found, the
\* response of the request is 404 NOT_FOUND and no queue message is sent
C24_AnyNotFoundGives404 ==
  /\ (SawNotFound /\ pc = "responded") =>
       response.status = 404 /\ response.error = "NOT_FOUND"
  /\ SawNotFound => NoQueueSend

\* C24 amended: when the first failure of the request is an entity fetch
\* (resolution or materialization, either value of cascade) or a content
\* fetch returning not-found, the request is aborted with 404 NOT_FOUND; after
\* any not-found no queue message is sent
C24_FirstNotFoundGives404 ==
  /\ (FirstFailure \in NotFoundMessages /\ pc = "responded") =>
       response.status = 404 /\ response.error = "NOT_FOUND"
  /\ (FirstFailure \in NotFoundMessages /\ r_err = "") => pc = "responded"
  /\ SawNotFound => NoQueueSend

C24_Witness ==
  /\ pc = "responded"
  /\ r_err = ""
  /\ m_errs = <<"Content not found">>
  /\ response.status = 404
  /\ queue = <<>>

\* the kind of the error a finished request was answered with, "none" for a
\* success or an unfinished request
ErrorKind ==
  IF pc # "responded" \/ response.status = 200 THEN "none"
  ELSE IF body.json = "null" THEN "internal"
  ELSE IF ValidateBody(body) # NoResponse THEN "validation"
  ELSE IF ~permCheck.allowed THEN "permission"
  ELSE IF StopAtPIInvalid(body.stop_at_pi)
            \/ CustomPromptsInvalid(body.custom_prompts) THEN "validation"
  ELSE IF FirstFailure \in NotFoundMessages THEN "notFound"
  ELSE IF FirstFailure = "Max depth" THEN "depthExceeded"
  ELSE "downstream"

ErrorKinds == {"validation", "notFound", "depthExceeded", "permission",
               "downstream", "internal"}

\* the response code the handler gives each kind of error
CodeOfKind(kind) ==
  CASE kind = "validation" -> ErrorResponse(400, "VALIDATION_ERROR").status
    [] kind = "permission" -> ErrorResponse(403, "FORBIDDEN").status
    [] kind = "notFound" -> CatchResponse("Entity not found").status
    [] kind = "depthExceeded" -> CatchResponse("Max depth").status
    [] kind = "downstream" -> CatchResponse("Failed to fetch entity").status
    [] kind = "internal" ->
         CatchResponse("Cannot read properties of null").status

----------------------------------------------------------------------------
(* The validation specification: one request with any of the request bodies
   the handler tells apart, against one chain of entities *)

\* the values of `phases`: missing, a string (not an array), and arrays that
\* are empty, hold a value outside the enum, mix both, or are valid
PhaseInputs ==
  {[kind |-> "missing", items |-> <<>>],
   [kind |-> "string", items |-> <<>>],
   [kind |-> "array", items |-> <<>>],
   [kind |-> "array", items |-> <<"ocr">>],
   [kind |-> "array", items |-> <<"pinax", "ocr">>],
   [kind |-> "array", items |-> <<"pinax">>],
   [kind |-> "array", items |-> <<"description", "cheimarros">>]}

\* a body that is not JSON
InvalidJsonBody == [NullBody EXCEPT !.json = "invalid"]

RichBodies ==
  {NullBody, InvalidJsonBody} \cup
  [json : {"object"},
   pi : {Undefined, EmptyStr, Malformed, 1},
   phases : PhaseInputs,
   cascade : {"true", "false"},
   stop_at_pi : {Undefined},
   custom_prompts : {"absent", "valid", "invalid"},
   custom_note : {"absent", "note"}]

\* the chain 1 -> 2 -> ... -> NumIds of entities, the target with MaxComps
\* components and each ancestor with one
ValidateStore ==
  StoreOf(ChainParents(NumIds, Undefined),
          [id \in 1..NumIds |-> IF id = 1 THEN MaxComps ELSE 1])

InitValidate ==
  /\ body \in RichBodies
  /\ store = ValidateStore
  /\ pc = "received"
  /\ permCalls = <<>>
  /\ permCheck = NoPermCheck
  /\ request = NoRequest
  /\ InitRest

SpecValidate == InitValidate /\ [][Next]_vars

----------------------------------------------------------------------------
(* Validation and the queue message *)

\* C26 as stated: a request whose pi does not match the identifier pattern,
\* or whose phases is missing, not an array, empty or holds a value outside
\* the enum, is answered 400 VALIDATION_ERROR, and neither resolution nor
\* materialization nor the publish is started
C26_InvalidRequestRefused ==
  (/\ pc # "received"
   /\ \/ body.pi \in {Undefined, EmptyStr, Malformed}
      \/ body.phases.kind # "array"
      \/ body.phases.items = <<>>
      \/ \E k \in 1..Len(body.phases.items) :
           body.phases.items[k] \notin {"pinax", "cheimarros", "description"})
  => /\ pc = "responded"
     /\ response.status = 400
     /\ response.error = "VALIDATION_ERROR"
     /\ NoEntityFetched
     /\ NothingStaged
     /\ NoQueueSend

\* C27 as stated: the queue message carries the custom_note of the request
\* options, and has none when the request supplied none
C27_CustomNoteCarried ==
  \A k \in 1..Len(queue) : queue[k].custom_note = body.custom_note


----------------------------------------------------------------------------
(* The published batch and the success response *)

\* the keys of the component objects the materialization has written
ComponentKeys == {KeyOf(call) : call \in PutCalls}

\* C28: a successful request has sent exactly one queue message (and no
\* request sends more than one); its batch_id, total_files and total_bytes
\* are those of the manifest, its manifest key is the key under the request's
\* staging prefix that the manifest was written to, and its reprocessing_mode
\* is true.
C28_OneMessagePerSuccess ==
  /\ Len(queue) <= 1
  /\ response.status = 200 =>
       /\ Len(queue) = 1
       /\ queue[1].batch_id = manifest.batch_id
       /\ queue[1].total_files = manifest.total_files
       /\ queue[1].total_bytes = manifest.total_bytes
       /\ queue[1].r2_prefix = StagingPrefix(manifest.batch_id)
       /\ SubSeq(queue[1].manifest_r2_key, 1, Len(queue[1].r2_prefix))
            = queue[1].r2_prefix
       /\ staging \ ComponentKeys = {queue[1].manifest_r2_key}
       /\ queue[1].reprocessing_mode = TRUE

\* C28 witness: a batch of two directories with one file each was published
C28_Witness ==
  /\ response.status = 200
  /\ Len(queue) = 1
  /\ Len(manifest.directories) = 2
  /\ queue[1].total_files = 2
  /\ queue[1].total_bytes > 0
  /\ queue[1].manifest_r2_key \in staging

\* C29: the success response lists the resolved identifiers, target first;
\* entities_queued is their number and the number of manifest directories;
\* batch_id is the batch_id of the manifest and of the queue message; the
\* last segment of status_url is that batch_id.
C29_SuccessResponse ==
  response.status = 200 =>
    /\ response.entity_pis = entities
    /\ response.entity_pis[1] = request.pi
    /\ response.entities_queued = Len(response.entity_pis)
    /\ response.entities_queued = Len(manifest.directories)
    /\ response.batch_id = manifest.batch_id
    /\ Len(queue) = 1
    /\ response.batch_id = queue[1].batch_id
    /\ response.status_url # <<>>
    /\ response.status_url[Len(response.status_url)] = response.batch_id

\* C29 witness: the response of a cascade that resolved the target and its
\* parent
C29_Witness ==
  /\ response.status = 200
  /\ response.entity_pis = <<1, 2>>
  /\ response.entities_queued = 2
  /\ response.batch_id = BatchId


----------------------------------------------------------------------------
(* Content types *)

\* the content type the extension table gives a component name that has an
\* extension, a final segment after a dot, compared without regard to case;
\* application/octet-stream for a name without a dot
TypeByExtension(name) ==
  IF Len(name) < 2 THEN "application/octet-stream"
  ELSE CASE name[Len(name)] \in {"md", "MD"} -> "text/markdown"
         [] name[Len(name)] \in {"png", "PNG"} -> "image/png"
         [] OTHER -> "application/octet-stream"

\* C30 as stated: every file of the manifest has the type of the extension
\* table for its final extension, compared case-insensitively, and
\* application/octet-stream when its name has no extension or one the table
\* does not hold
C30_ContentTypeByExtension ==
  ManifestBuilt =>
    \A d \in 1..Len(manifest.directories) :
      \A k \in 1..Len(manifest.directories[d].files) :
        LET f == manifest.directories[d].files[k] IN
        f.content_type = TypeByExtension(f.file_name)


----------------------------------------------------------------------------
(* Directory counts *)

\* the sum of file_size over the first n files
RECURSIVE FileSizeUpTo(_, _)
FileSizeUpTo(files, n) ==
  IF n = 0 THEN 0 ELSE FileSizeUpTo(files, n - 1) + files[n].file_size

\* C31: the directory of every materialized entity given to
\* buildReprocessingManifest has one file per component of the entity,
\* file_count equal to the number of its files and total_bytes equal to the
\* sum of file_size over its files.
C31_DirectoryCounts ==
  ManifestBuilt =>
    \A d \in 1..Len(manifest.directories) :
      LET dir == manifest.directories[d] IN
      /\ Len(dir.files) = Len(tasks[d].entity.components)
      /\ dir.file_count = Len(dir.files)
      /\ dir.total_bytes = FileSizeUpTo(dir.files, Len(dir.files))
      /\ \A k \in 1..Len(dir.files) :
           dir.files[k].file_size = ContentLength(dir.files[k].file_name)

\* C31 witness: a directory of three files of 3, 5 and 0 bytes
C31_Witness ==
  /\ ManifestBuilt
  /\ manifest.directories[1].file_count = 3
  /\ manifest.directories[1].total_bytes = 8


----------------------------------------------------------------------------
(* Order of the staging writes, the queue send and the response *)

\* the queue send has been issued
QueueSendIssued == p_st \in {"sending", "sendFailed", "sent"}

\* C32: from the moment the queue send is issued, the manifest object is in
\* staging at the manifest key of the message and every file r2_key listed
\* in the manifest is in staging.
C32_StagedBeforeQueueSend ==
  /\ QueueSendIssued =>
       /\ ManifestKey(StagingPrefix(manifest.batch_id)) \in staging
       /\ \A d \in 1..Len(manifest.directories) :
            \A k \in 1..Len(manifest.directories[d].files) :
              manifest.directories[d].files[k].r2_key \in staging
  /\ \A q \in 1..Len(queue) :
       /\ QueueSendIssued
       /\ queue[q].manifest_r2_key \in staging

\* C32 witness: the message of a batch of two files was sent
C32_Witness ==
  /\ p_st = "sent"
  /\ Len(queue) = 1
  /\ manifest.total_files = 2
  /\ Cardinality(staging) = 3


\* the downloads and staging writes issued so far
DownloadsAndPuts ==
  {call \in BagToSet(m_calls) : call.op \in {"downloadContent", "put"}}

\* C33 as stated: once the request has produced its response, no download
\* and no staging write of the request starts
C33_NoWorkAfterResponse ==
  [][pc = "responded" => DownloadsAndPuts' = DownloadsAndPuts]_vars


\* C38 as stated: after a request that failed, staging holds no object under
\* the staging prefix of the request
C38_FailedRequestLeavesStagingEmpty ==
  (pc = "responded" /\ response.status # 200) => staging = {}


----------------------------------------------------------------------------
(* The changing-store specification: one cascade request against the chain
   1 -> 2 -> ... -> NumIds, in which the content store changes the parent of
   one entity once while the request is resolved or materialized.  The
   resolver and the materializer each read the store at the moment their
   getEntity returns. *)

\* the parents an entity may be moved to
NewParents == {Undefined} \cup 1..(NumIds + 1)

\* the store gives entity id the parent p; the children lists follow
StoreChanges ==
  /\ pc \in {"resolving", "materializing"}
  /\ store = ValidateStore
  /\ \E id \in DOMAIN store :
     \E p \in NewParents \ {store[id].parent_pi, id} :
       store' = StoreOf([ChainParents(NumIds, Undefined) EXCEPT ![id] = p],
                        [e \in 1..NumIds |-> Len(store[e].components)])
  /\ UNCHANGED <<body, pc, permCalls, permCheck, request, response>>
  /\ UNCHANGED <<resolverVars, materializeVars, publishVars>>

InitChange ==
  /\ body \in {BodyOf(1, cascade, Undefined) : cascade \in BOOLEAN}
  /\ store = ValidateStore
  /\ pc = "received"
  /\ permCalls = <<>>
  /\ permCheck = NoPermCheck
  /\ request = NoRequest
  /\ InitRest

NextChange == Next \/ StoreChanges

SpecChange == InitChange /\ [][NextChange]_vars

\* C34 as stated: in the manifest of a cascade, the parent path of every
\* directory is the path of the directory that follows it
C34_ConsecutiveDirectoriesLinked ==
  (ManifestBuilt /\ request.cascade) =>
    \A i \in 1..(Len(manifest.directories) - 1) :
      manifest.directories[i].existing_parent_path
        = manifest.directories[i + 1].directory_path


----------------------------------------------------------------------------
(* The hop ceiling *)

\* C37 as stated: a cascade whose target has at most maxDepth ancestors before
\* a stop condition does not fail with the depth error: the resolver returns
\* the target and its ancestors, a list of 101 identifiers for a chain with
\* exactly 100 ancestors whose last ancestor has no parent
C37_DepthErrorOnlyAboveCeiling ==
  ( /\ r_pc \in {"returned", "thrown"}
    /\ request.cascade
    /\ r_err # "Failed to fetch entity"
    /\ WalkFrom(request.pi, request.stopAtPI, entities)
    /\ EndsAtStop(request.stopAtPI, entities)
    /\ Len(entities) - 1 <= maxDepth )
  => /\ r_pc = "returned"
     /\ r_err # "Max depth"


----------------------------------------------------------------------------
(* Validation and the permission service *)

\* C35 as stated: a request answered 400 VALIDATION_ERROR has made no
\* external call: the permission service was not asked, no entity was
\* fetched, nothing was staged and nothing was sent to the queue
C35_ValidationBeforeExternalCalls ==
  (pc = "responded" /\ response.status = 400) =>
    /\ permCalls = <<>>
    /\ NoEntityFetched
    /\ NothingStaged
    /\ NoQueueSend

\* the call to the permission service threw or was answered with a non-OK
\* status
PermissionServiceFailed ==
  permCheck.reason \in {"Permission check error", "Permission check failed"}

\* C36: when the call to the permission service throws or is answered with a
\* non-OK status the request is answered 403 FORBIDDEN, whatever its options,
\* and fetches no entity, starts no materialization, writes nothing to staging
\* and sends no queue message.
C36_PermissionFailsClosed ==
  PermissionServiceFailed =>
    /\ ~permCheck.allowed
    /\ pc = "responded"
    /\ response.status = 403
    /\ response.error = "FORBIDDEN"
    /\ NoEntityFetched
    /\ tasks = <<>>
    /\ NothingStaged
    /\ NoQueueSend

\* C36 witness: a cascade request refused after the permission call threw
C36_Witness ==
  /\ permCheck.reason = "Permission check error"
  /\ Len(permCalls) = 1
  /\ body.cascade = "true"
  /\ pc = "responded"
  /\ response.status = 403

====
